---------------------------- MODULE Spec2Model ----------------------------
(***************************************************************************)
(* A model of the app_review repository:                                   *)
(*   src/get_review_data/get_apple_app_store_reviews.py  (App Store)       *)
(*   src/get_review_data/get_google_play_app_reviews.py  (Play Store)      *)
(*                                                                         *)
(* JSON values are modelled as tagged trees: a scalar, a dict (an ordered  *)
(* sequence of key/value entries, Python dicts iterate in insertion        *)
(* order) or a list.  A flat record is a function from field names to      *)
(* values.                                                                 *)
(*                                                                         *)
(* Specifications:                                                         *)
(*   SpecApple    get_and_collect_reviews, the pagination loop             *)
(*   SpecExtract  extract_matches on bounded maps and sections             *)
(*   SpecPlay     process_json on bounded review collections               *)
(*   SpecComments extract_comments on pairs of comments                    *)
(*   SpecSearch   extract_values on bounded trees                          *)
(***************************************************************************)
EXTENDS Integers, Sequences, FiniteSets, TLC

VARIABLES
    \* ---- get_and_collect_reviews (App Store) ----
    no_of_pages,       \* argument: the number of pages to request
    page,              \* the loop variable of `for page in range(no_of_pages)`
    pc,                \* position inside get_and_collect_reviews
    reviews_response,  \* what get_reviews returned for the current page
    review_list,       \* reviews['feed']['entry'] of the current page
    idx,               \* position of process_reviews inside review_list
    all_reviews,       \* the list of flat records (mutated in place)
    returned,          \* "pending", "None" (bare return), "list" or "raised"
    files,             \* what save_json has written, in order
    requested,         \* page numbers passed to get_reviews, in order
    served,            \* what the App Store answered, in order
    \* ---- extract_matches ----
    em_keys, em_section, em_result, em_pc,
    \* ---- process_json (Play Store) ----
    reviews_in,        \* what the API delivered: per review its key order and comments
    pj_result, pj_pc,
    \* ---- extract_comments ----
    comment_a, comment_b, record_a, record_b, cm_pc,
    \* ---- extract_values ----
    sv_obj, sv_key, sv_result, sv_pc

appleVars   == <<no_of_pages, page, pc, reviews_response, review_list, idx,
                 all_reviews, returned, files, requested, served>>
extractVars == <<em_keys, em_section, em_result, em_pc>>
playVars    == <<reviews_in, pj_result, pj_pc>>
commentVars == <<comment_a, comment_b, record_a, record_b, cm_pc>>
searchVars  == <<sv_obj, sv_key, sv_result, sv_pc>>
vars == <<appleVars, extractVars, playVars, commentVars, searchVars>>

(***************************************************************************)
(* JSON values                                                             *)
(***************************************************************************)
Scalar(s)   == [tag |-> "scalar", s |-> s, e |-> <<>>]
Entry(k, v) == [k |-> k, v |-> v]
Dict(en)    == [tag |-> "dict", s |-> "", e |-> en]
List(items) == [tag |-> "list", s |-> "",
                e |-> [i \in 1..Len(items) |-> Entry("", items[i])]]
\* Python's None (also what json.loads gives for null)
None == Scalar("None")

IsDict(v)    == v.tag = "dict"
IsList(v)    == v.tag = "list"
HasKey(d, k) == IsDict(d) /\ \E i \in 1..Len(d.e) : d.e[i].k = k
Get(d, k)    == d.e[CHOOSE i \in 1..Len(d.e) : d.e[i].k = k].v
Items(l)     == [i \in 1..Len(l.e) |-> l.e[i].v]

\* flat records: Python dicts with string keys, as functions
EmptyRec     == [f \in {} |-> None]
Put(r, f, v) == [g \in (DOMAIN r) \cup {f} |-> IF g = f THEN v ELSE r[g]]
\* dict.update
Update(r, u) == [g \in (DOMAIN r) \cup (DOMAIN u) |->
                    IF g \in DOMAIN u THEN u[g] ELSE r[g]]

(***************************************************************************)
(* Bounds                                                                  *)
(***************************************************************************)
MaxRules   == 3   \* rules in an extraction map (SpecExtract)
MaxEntries == 2   \* entries in a section (SpecExtract)

(***************************************************************************)
(* extract_matches(keys, review_section)                                   *)
(*   for entry in review_section: for key in keys: if entry == key[0]: ... *)
(* A rule is <<sourceKey, nestedKey, destinationField>>.  The result is    *)
(* [ok, rec]: ok = FALSE stands for the KeyError / TypeError that          *)
(* review_section[entry][key[1]] raises when the value at sourceKey has no *)
(* nestedKey.  Iterating a list yields its items, and a matching item then *)
(* fails at review_section[entry] (a list is not indexed by a string).     *)
(***************************************************************************)
IterKey(sec, i) ==
    IF IsDict(sec) THEN sec.e[i].k
    ELSE IF sec.e[i].v.tag = "scalar" THEN sec.e[i].v.s ELSE ""

\* for key in keys: the rules tried against entry i of the section
RECURSIVE for_key_in_keys(_, _, _, _, _)
for_key_in_keys(keys, sec, i, j, res) ==
    IF j > Len(keys) \/ ~res.ok THEN res
    ELSE LET key == keys[j]
             val == sec.e[i].v
         IN  for_key_in_keys(keys, sec, i, j + 1,
                IF IterKey(sec, i) # key[1] THEN res
                ELSE IF ~IsDict(sec) THEN [res EXCEPT !.ok = FALSE]
                ELSE IF key[2] = ""
                THEN [res EXCEPT !.rec = Put(res.rec, key[3], val)]
                ELSE IF HasKey(val, key[2])
                THEN [res EXCEPT !.rec = Put(res.rec, key[3], Get(val, key[2]))]
                ELSE [res EXCEPT !.ok = FALSE])

\* for entry in review_section
RECURSIVE for_entry_in_section(_, _, _, _)
for_entry_in_section(keys, sec, i, res) ==
    IF i > Len(sec.e) \/ ~res.ok THEN res
    ELSE for_entry_in_section(keys, sec, i + 1,
                              for_key_in_keys(keys, sec, i, 1, res))

\* a plausible slip: the nested descent is forgotten, the value at
\* sourceKey is always stored verbatim
extract_matches_verbatim(keys, review_section) ==
    for_entry_in_section([j \in 1..Len(keys) |-> <<keys[j][1], "", keys[j][3]>>],
                         review_section, 1, [ok |-> TRUE, rec |-> EmptyRec])

extract_matches(keys, review_section) ==
    for_entry_in_section(keys, review_section, 1, [ok |-> TRUE, rec |-> EmptyRec])

(***************************************************************************)
(* SpecExtract: extract_matches applied to every bounded (map, section)    *)
(***************************************************************************)
SourceKeys  == {"uri", "name"}
NestedKeys  == {"", "label"}
DestFields  == {"author_uri", "author_name", "author_raw"}
SectionKeys == {"uri", "name", "label"}
SectionValues ==
    { Scalar("text"),
      Dict(<<Entry("label", Scalar("v1"))>>),
      Dict(<<Entry("href", Scalar("v2"))>>) }

Rules == SourceKeys \X NestedKeys \X DestFields

\* extraction maps: destinationField names are unique within a map, as in
\* author_keys, other_keys, link_keys and content_keys
RECURSIVE MapsOfLen(_)
MapsOfLen(n) ==
    IF n = 0 THEN {<<>>}
    ELSE UNION { { Append(m, r) :
                     r \in { q \in Rules : \A j \in 1..Len(m) : m[j][3] # q[3] } } :
                 m \in MapsOfLen(n - 1) }
ExtractionMaps(N) == UNION { MapsOfLen(n) : n \in 0..N }

\* sections: dicts, whose keys are unique
RECURSIVE EntriesOfLen(_)
EntriesOfLen(n) ==
    IF n = 0 THEN {<<>>}
    ELSE UNION { { Append(en, Entry(k, v)) :
                     k \in { q \in SectionKeys : \A j \in 1..Len(en) : en[j].k # q },
                     v \in SectionValues } :
                 en \in EntriesOfLen(n - 1) }
Sections(N) == { Dict(en) : en \in UNION { EntriesOfLen(n) : n \in 0..N } }

NoResult == [ok |-> FALSE, rec |-> EmptyRec]

InitExtract ==
    /\ em_keys \in ExtractionMaps(MaxRules)
    /\ em_section \in Sections(MaxEntries)
    /\ em_result = NoResult
    /\ em_pc = "call"

IdleExtract ==
    /\ em_keys = <<>>
    /\ em_section = Dict(<<>>)
    /\ em_result = NoResult
    /\ em_pc = "idle"

CallExtractMatches ==
    /\ em_pc = "call"
    /\ em_result' = extract_matches(em_keys, em_section)
    /\ em_pc' = "done"
    /\ UNCHANGED <<em_keys, em_section>>
    /\ UNCHANGED <<appleVars, playVars, commentVars, searchVars>>

NextExtract == CallExtractMatches

\* ---- what the claim says of (M, S), stated over sets, not by the loop ----
RuleSet(M)      == { M[j] : j \in 1..Len(M) }
MatchedRules(M, S) == { r \in RuleSet(M) : HasKey(S, r[1]) }
\* every matched value contains its rule's nestedKey
NestedPresent(M, S) ==
    \A r \in MatchedRules(M, S) : r[2] # "" => HasKey(Get(S, r[1]), r[2])
RuleValue(r, S) ==
    IF r[2] = "" THEN Get(S, r[1]) ELSE Get(Get(S, r[1]), r[2])

\* C4: for every extraction map M and section S whose matched values contain
\* the rule's nestedKey, extract_matches(M, S) returns a record whose fields
\* are exactly the destinationFields of the rules whose sourceKey is a key
\* of S, each holding S[sourceKey][nestedKey] (S[sourceKey] when nestedKey
\* is empty); unmatched keys of S and rules with an absent sourceKey
\* contribute nothing.
C4_ExtractExact ==
    (em_pc = "done" /\ NestedPresent(em_keys, em_section)) =>
        /\ em_result.ok
        /\ DOMAIN em_result.rec = { r[3] : r \in MatchedRules(em_keys, em_section) }
        /\ \A r \in MatchedRules(em_keys, em_section) :
               em_result.rec[r[3]] = RuleValue(r, em_section)

\* two rules share a matched sourceKey, one of them descends into nestedKey,
\* a third rule's sourceKey is absent from S, and a key of S has no rule
C4_Witness ==
    /\ em_pc = "done"
    /\ NestedPresent(em_keys, em_section)
    /\ \E r, q \in MatchedRules(em_keys, em_section) :
          r # q /\ r[1] = q[1] /\ r[2] = "label" /\ q[2] = ""
    /\ \E r \in RuleSet(em_keys) : ~HasKey(em_section, r[1])
    /\ \E i \in 1..Len(em_section.e) :
          \A r \in RuleSet(em_keys) : r[1] # em_section.e[i].k
    /\ Cardinality(DOMAIN em_result.rec) = 2

(***************************************************************************)
(* App Store: the key maps (module constants of the source)                *)
(***************************************************************************)
author_keys ==
    << <<"uri", "label", "author_uri">>,
       <<"name", "label", "author_name">> >>

other_keys ==
    << <<"im:version", "label", "im_version">>,
       <<"im:rating", "label", "im_rating">>,
       <<"id", "label", "id">>,
       <<"title", "label", "title">>,
       <<"content", "label", "content">>,
       <<"im:voteSum", "label", "im_votesum">>,
       <<"im:voteCount", "label", "im_votecount">> >>

link_keys ==
    << <<"attributes", "rel", "link_attributes_related">>,
       <<"attributes", "href", "link_attributes_href">> >>

content_keys ==
    << <<"attributes", "term", "content_attributes_term">>,
       <<"attributes", "label", "content_attributes_label">> >>

review_sections ==
    << <<"author", author_keys>>,
       <<"link", link_keys>>,
       <<"im:contentType", content_keys>> >>

(***************************************************************************)
(* What the App Store serves.  The text of a response is kept as what was  *)
(* put on the wire: its kind, the page it is for, and per review whether   *)
(* the review is complete; json_loads builds the nested value from it.     *)
(***************************************************************************)
MaxPages   == 3   \* pages the store is asked for
MaxReviews == 2   \* reviews on one page

ReviewVariants == {"good", "no_author", "no_contenttype", "no_label"}

\* the value at (name, page p, position j): distinct for distinct places
Lbl(name, p, j) == Scalar(name \o "_" \o ToString(p) \o "_" \o ToString(j))
Labelled(name, p, j) == Dict(<<Entry("label", Lbl(name, p, j))>>)

\* one review of the customer-reviews feed, in the feed's key order
MkReview(p, j, variant) ==
    LET full ==
          << Entry("author",
                   Dict(<< Entry("uri", Labelled("uri", p, j)),
                           Entry("name", Labelled("name", p, j)),
                           Entry("label", Scalar("")) >>)),
             Entry("im:version", Labelled("version", p, j)),
             Entry("im:rating", Labelled("rating", p, j)),
             Entry("id", Labelled("id", p, j)),
             Entry("title",
                   IF variant = "no_label" THEN Dict(<<>>)
                   ELSE Labelled("title", p, j)),
             Entry("content",
                   Dict(<< Entry("label", Lbl("content", p, j)),
                           Entry("attributes",
                                 Dict(<<Entry("type", Scalar("text"))>>)) >>)),
             Entry("link",
                   Dict(<< Entry("attributes",
                                 Dict(<< Entry("rel", Scalar("related")),
                                         Entry("href", Lbl("href", p, j)) >>)) >>)),
             Entry("im:voteSum", Labelled("votesum", p, j)),
             Entry("im:contentType",
                   Dict(<< Entry("attributes",
                                 Dict(<< Entry("term", Scalar("Application")),
                                         Entry("label", Scalar("Application")) >>)) >>)),
             Entry("im:voteCount", Labelled("votecount", p, j)) >>
        drop == IF variant = "no_author" THEN "author"
                ELSE IF variant = "no_contenttype" THEN "im:contentType"
                ELSE ""
        keep(en) == en.k # drop
    IN  Dict(SelectSeq(full, keep))

\* json.loads(reviews_response.text): [ok, val]; ok = FALSE is JSONDecodeError
json_loads(text) ==
    LET feedTitle == Entry("title", Dict(<<Entry("label", Scalar("Customer Reviews"))>>))
        reviews == [j \in 1..Len(text.variants) |->
                       MkReview(text.page, j, text.variants[j])]
    IN  CASE text.kind = "entries" ->
               [ok |-> TRUE,
                val |-> Dict(<<Entry("feed",
                                     Dict(<<feedTitle,
                                            Entry("entry", List(reviews))>>))>>)]
          [] text.kind = "noentry" ->
               [ok |-> TRUE, val |-> Dict(<<Entry("feed", Dict(<<feedTitle>>))>>)]
          [] text.kind = "nofeed" ->
               [ok |-> TRUE, val |-> Dict(<<>>)]
          [] OTHER ->
               [ok |-> FALSE, val |-> None]

Text(kind, p, variants) == [kind |-> kind, page |-> p, variants |-> variants]
NoText == Text("", 0, <<>>)

VariantLists(N) == UNION { [1..n -> ReviewVariants] : n \in 0..N }

\* every answer the store may give to the request for page p
Responses(p) ==
    { [status_code |-> c, text |-> Text("error", p, <<>>)] : c \in {404, 503} }
    \cup
    { [status_code |-> 200, text |-> Text(k, p, <<>>)] :
          k \in {"notjson", "nofeed", "noentry"} }
    \cup
    { [status_code |-> 200, text |-> Text("entries", p, vs)] :
          vs \in VariantLists(MaxReviews) }

(***************************************************************************)
(* get_reviews: the response when its status is 200, otherwise None        *)
(***************************************************************************)
NoneResponse == [none |-> TRUE, status_code |-> 0, text |-> NoText]

get_reviews(response) ==
    IF response.status_code = 200
    THEN [none |-> FALSE, status_code |-> response.status_code,
          text |-> response.text]
    ELSE NoneResponse

(***************************************************************************)
(* process_reviews, one review of the page:                                *)
(*   review_flat = extract_matches(other_keys, review)                     *)
(*   for section in review_sections:                                       *)
(*       review_flat.update(extract_matches(section[1], review[section[0]]))*)
(* ok = FALSE when extract_matches raises or review[section[0]] is missing *)
(***************************************************************************)
RECURSIVE sections_loop(_, _, _)
sections_loop(review, k, review_flat) ==
    IF k > Len(review_sections) THEN [ok |-> TRUE, rec |-> review_flat]
    ELSE LET section == review_sections[k] IN
         IF ~HasKey(review, section[1])
         THEN [ok |-> FALSE, rec |-> review_flat]
         ELSE LET sub == extract_matches(section[2], Get(review, section[1])) IN
              IF ~sub.ok THEN [ok |-> FALSE, rec |-> review_flat]
              ELSE sections_loop(review, k + 1, Update(review_flat, sub.rec))

flatten_review(review) ==
    LET top == extract_matches(other_keys, review) IN
    IF ~top.ok THEN top ELSE sections_loop(review, 1, top.rec)

(***************************************************************************)
(* get_and_collect_reviews as a process                                    *)
(***************************************************************************)
InitApple ==
    /\ no_of_pages \in 0..MaxPages
    /\ page = 0
    /\ pc = "loop"
    /\ reviews_response = NoneResponse
    /\ review_list = <<>>
    /\ idx = 0
    /\ all_reviews = <<>>
    /\ returned = "pending"
    /\ files = <<>>
    /\ requested = <<>>
    /\ served = <<>>

IdleApple ==
    /\ no_of_pages = 0
    /\ page = 0
    /\ pc = "idle"
    /\ reviews_response = NoneResponse
    /\ review_list = <<>>
    /\ idx = 0
    /\ all_reviews = <<>>
    /\ returned = "pending"
    /\ files = <<>>
    /\ requested = <<>>
    /\ served = <<>>

othersThanApple == <<extractVars, playVars, commentVars, searchVars>>

\* reviews_response = get_reviews(review_id, page+1)
GetReviews ==
    /\ pc = "loop"
    /\ page < no_of_pages
    /\ \E response \in Responses(page + 1) :
          /\ served' = Append(served, response)
          /\ reviews_response' = get_reviews(response)
    /\ requested' = Append(requested, page + 1)
    /\ pc' = "fetched"
    /\ UNCHANGED <<no_of_pages, page, review_list, idx, all_reviews, returned, files>>
    /\ UNCHANGED othersThanApple

\* the for loop is exhausted: return (all_reviews)
LoopExhausted ==
    /\ pc = "loop"
    /\ page >= no_of_pages
    /\ returned' = "list"
    /\ pc' = "done"
    /\ UNCHANGED <<no_of_pages, page, reviews_response, review_list, idx,
                   all_reviews, files, requested, served>>
    /\ UNCHANGED othersThanApple

\* a slip: the failed page is skipped and the loop goes on (continue)
FetchFailed_continue ==
    /\ pc = "fetched"
    /\ reviews_response.none
    /\ page' = page + 1
    /\ pc' = "loop"
    /\ UNCHANGED <<no_of_pages, reviews_response, review_list, idx, all_reviews,
                   returned, files, requested, served>>
    /\ UNCHANGED othersThanApple

\* if reviews_response is None: print("Cannot get reviews"); return
FetchFailed ==
    /\ pc = "fetched"
    /\ reviews_response.none
    /\ returned' = "None"
    /\ pc' = "done"
    /\ UNCHANGED <<no_of_pages, page, reviews_response, review_list, idx,
                   all_reviews, files, requested, served>>
    /\ UNCHANGED othersThanApple

\* reviews = json.loads(reviews_response.text) raises, outside the try
LoadsRaises ==
    /\ pc = "fetched"
    /\ ~reviews_response.none
    /\ ~json_loads(reviews_response.text).ok
    /\ returned' = "raised"
    /\ pc' = "done"
    /\ UNCHANGED <<no_of_pages, page, reviews_response, review_list, idx,
                   all_reviews, files, requested, served>>
    /\ UNCHANGED othersThanApple

HasEntry(reviews) ==
    HasKey(reviews, "feed") /\ HasKey(Get(reviews, "feed"), "entry")

\* a slip: the missing review list is handled like a failed fetch
NoMoreEntries_return ==
    /\ pc = "fetched"
    /\ ~reviews_response.none
    /\ json_loads(reviews_response.text).ok
    /\ ~HasEntry(json_loads(reviews_response.text).val)
    /\ returned' = "None"
    /\ pc' = "done"
    /\ UNCHANGED <<no_of_pages, page, reviews_response, review_list, idx,
                   all_reviews, files, requested, served>>
    /\ UNCHANGED othersThanApple

\* review_list = reviews['feed']['entry'] raises KeyError:
\* print("No more entries"); break; return (all_reviews)
NoMoreEntries ==
    /\ pc = "fetched"
    /\ ~reviews_response.none
    /\ json_loads(reviews_response.text).ok
    /\ ~HasEntry(json_loads(reviews_response.text).val)
    /\ returned' = "list"
    /\ pc' = "done"
    /\ UNCHANGED <<no_of_pages, page, reviews_response, review_list, idx,
                   all_reviews, files, requested, served>>
    /\ UNCHANGED othersThanApple

\* review_list = reviews['feed']['entry']
GotEntries ==
    /\ pc = "fetched"
    /\ ~reviews_response.none
    /\ json_loads(reviews_response.text).ok
    /\ HasEntry(json_loads(reviews_response.text).val)
    /\ review_list' = Items(Get(Get(json_loads(reviews_response.text).val, "feed"),
                                "entry"))
    /\ pc' = "save"
    /\ UNCHANGED <<no_of_pages, page, reviews_response, idx, all_reviews,
                   returned, files, requested, served>>
    /\ UNCHANGED othersThanApple

\* a slip: the file is labelled with the 0-based loop variable
SaveJson_zero_based ==
    /\ pc = "save"
    /\ files' = Append(files, [page_no |-> page, text |-> reviews_response.text])
    /\ idx' = 1
    /\ pc' = "process"
    /\ UNCHANGED <<no_of_pages, page, reviews_response, review_list, all_reviews,
                   returned, requested, served>>
    /\ UNCHANGED othersThanApple

\* save_json(reviews_response.text, page+1)
SaveJson ==
    /\ pc = "save"
    /\ files' = Append(files, [page_no |-> page + 1, text |-> reviews_response.text])
    /\ idx' = 1
    /\ pc' = "process"
    /\ UNCHANGED <<no_of_pages, page, reviews_response, review_list, all_reviews,
                   returned, requested, served>>
    /\ UNCHANGED othersThanApple

\* a slip: the except clause is missing and the error leaves the function
ProcessReview_propagates ==
    /\ pc = "process"
    /\ idx <= Len(review_list)
    /\ LET flat == flatten_review(review_list[idx]) IN
       IF flat.ok
       THEN /\ all_reviews' = Append(all_reviews, flat.rec)
            /\ idx' = idx + 1
            /\ UNCHANGED <<pc, returned>>
       ELSE /\ returned' = "raised"
            /\ pc' = "done"
            /\ UNCHANGED <<all_reviews, idx>>
    /\ UNCHANGED <<no_of_pages, page, reviews_response, review_list, files,
                   requested, served>>
    /\ UNCHANGED othersThanApple

\* process_reviews, one turn of `for review in review_list`: the record is
\* appended to the list all_reviews names (in place); an exception is caught
\* by the caller's except: print("No more entries"); break
ProcessReview ==
    /\ pc = "process"
    /\ idx <= Len(review_list)
    /\ LET flat == flatten_review(review_list[idx]) IN
       IF flat.ok
       THEN /\ all_reviews' = Append(all_reviews, flat.rec)
            /\ idx' = idx + 1
            /\ UNCHANGED <<pc, returned>>
       ELSE /\ returned' = "list"
            /\ pc' = "done"
            /\ UNCHANGED <<all_reviews, idx>>
    /\ UNCHANGED <<no_of_pages, page, reviews_response, review_list, files,
                   requested, served>>
    /\ UNCHANGED othersThanApple

\* process_reviews returns; the next turn of the page loop
PageDone ==
    /\ pc = "process"
    /\ idx > Len(review_list)
    /\ page' = page + 1
    /\ pc' = "loop"
    /\ UNCHANGED <<no_of_pages, reviews_response, review_list, idx, all_reviews,
                   returned, files, requested, served>>
    /\ UNCHANGED othersThanApple

NextApple ==
    \/ GetReviews
    \/ LoopExhausted
    \/ FetchFailed
    \/ LoadsRaises
    \/ NoMoreEntries
    \/ GotEntries
    \/ SaveJson
    \/ ProcessReview
    \/ PageDone

(***************************************************************************)
(* What the claims about the pagination loop speak of                      *)
(***************************************************************************)
AppleFields ==
    { "im_version", "im_rating", "id", "title", "content", "im_votesum",
      "im_votecount", "author_uri", "author_name", "link_attributes_related",
      "link_attributes_href", "content_attributes_term",
      "content_attributes_label" }

\* the flat record of the complete review at position j of page p
ExpectedFlat(p, j) ==
    [f \in AppleFields |->
        CASE f = "im_version"   -> Lbl("version", p, j)
          [] f = "im_rating"    -> Lbl("rating", p, j)
          [] f = "id"           -> Lbl("id", p, j)
          [] f = "title"        -> Lbl("title", p, j)
          [] f = "content"      -> Lbl("content", p, j)
          [] f = "im_votesum"   -> Lbl("votesum", p, j)
          [] f = "im_votecount" -> Lbl("votecount", p, j)
          [] f = "author_uri"   -> Lbl("uri", p, j)
          [] f = "author_name"  -> Lbl("name", p, j)
          [] f = "link_attributes_related" -> Scalar("related")
          [] f = "link_attributes_href"    -> Lbl("href", p, j)
          [] OTHER -> Scalar("Application")]

ExpectedPage(p, n) == [j \in 1..n |-> ExpectedFlat(p, j)]

\* the records of pages 1..n of what was served, page by page
RECURSIVE ExpectedBatch(_, _)
ExpectedBatch(srv, n) ==
    IF n = 0 THEN <<>>
    ELSE ExpectedBatch(srv, n - 1) \o ExpectedPage(n, Len(srv[n].text.variants))

\* every record a page p could contribute
PageRecords(p) == { ExpectedFlat(p, j) : j \in 1..MaxReviews }

Failed(response) == response.status_code # 200
WellFormed(response) ==
    /\ response.status_code = 200
    /\ response.text.kind = "entries"
    /\ \A j \in 1..Len(response.text.variants) : response.text.variants[j] = "good"
MissingEntry(response) ==
    /\ response.status_code = 200
    /\ response.text.kind \in {"nofeed", "noentry"}
Unflattenable(response) ==
    /\ response.status_code = 200
    /\ response.text.kind = "entries"
    /\ \E j \in 1..Len(response.text.variants) : response.text.variants[j] # "good"
FirstBad(response) ==
    CHOOSE j \in 1..Len(response.text.variants) :
        /\ response.text.variants[j] # "good"
        /\ \A i \in 1..(j - 1) : response.text.variants[i] = "good"

LastServed == served[Len(served)]
EarlierWellFormed == \A i \in 1..(Len(served) - 1) : WellFormed(served[i])

\* C1: N well-formed pages followed by a 200 page whose feed.entry is
\* missing: get_and_collect_reviews returns the flat records of exactly
\* pages 1..N, by page and then by position, and nothing of a later page.
C1_PaginationTermination ==
    (pc = "done" /\ served # <<>> /\ MissingEntry(LastServed) /\ EarlierWellFormed) =>
        /\ returned = "list"
        /\ all_reviews = ExpectedBatch(served, Len(served) - 1)

C1_Witness ==
    /\ pc = "done"
    /\ Len(served) = 3
    /\ MissingEntry(LastServed)
    /\ EarlierWellFormed
    /\ Len(served[1].text.variants) = 2
    /\ Len(served[2].text.variants) = 1
    /\ Len(all_reviews) = 3

\* C2: the fetch of page k >= 2 fails after pages 1..k-1 were fetched and
\* flattened: get_and_collect_reviews returns the records of pages 1..k-1.
C2_PartialOnFailure ==
    (pc = "done" /\ Len(served) >= 2 /\ Failed(LastServed) /\ EarlierWellFormed) =>
        /\ returned = "list"
        /\ all_reviews = ExpectedBatch(served, Len(served) - 1)

\* C3: pages are requested in the order 1, 2, ..., at most no_of_pages of
\* them; once the fetch of page k has failed no page above k is requested
\* and the returned value holds no record of page k or of a later page.
ReturnedRecords ==
    IF returned = "list" THEN { all_reviews[i] : i \in 1..Len(all_reviews) } ELSE {}

C3_AbortImmediate ==
    /\ requested = [i \in 1..Len(requested) |-> i]
    /\ Len(requested) <= no_of_pages
    /\ Len(served) = Len(requested)
    /\ \A k \in 1..Len(served) :
          Failed(served[k]) =>
             /\ Len(requested) = k
             /\ \A p \in k..MaxPages :
                   /\ ReturnedRecords \cap PageRecords(p) = {}
                   /\ \A i \in 1..Len(all_reviews) : all_reviews[i] \notin PageRecords(p)

C3_Witness ==
    /\ pc = "done"
    /\ no_of_pages = 3
    /\ Len(served) = 2
    /\ WellFormed(served[1])
    /\ Len(all_reviews) = 2
    /\ Failed(served[2])

\* C9: every page that has a record in the batch was saved, under its
\* 1-based page number and with its raw payload, before its first review
\* was flattened; pages are saved at most once and in increasing order; a
\* page whose fetch failed is never saved.
C9_AuditTrail ==
    /\ \A i \in 1..Len(files) :
          /\ files[i].page_no \in 1..Len(served)
          /\ served[files[i].page_no].status_code = 200
          /\ served[files[i].page_no].text = files[i].text
    /\ \A i, j \in 1..Len(files) : i < j => files[i].page_no < files[j].page_no
    /\ \A i \in 1..Len(all_reviews) : \A p \in 1..MaxPages :
          all_reviews[i] \in PageRecords(p) =>
              \E f \in 1..Len(files) : files[f].page_no = p
    /\ (pc = "process" /\ idx >= 1) =>
          \E f \in 1..Len(files) : files[f].page_no = page + 1

C9_Witness ==
    /\ Len(files) = 2
    /\ all_reviews # <<>>
    /\ all_reviews[Len(all_reviews)] \in PageRecords(2)
    /\ all_reviews[1] \in PageRecords(1)
    /\ \E k \in 1..Len(served) : Failed(served[k])

\* C10: page p has feed.entry but flattening its j-th review raises: the
\* error is not propagated, no further page is requested, the result is the
\* records of pages 1..p-1 followed by those of reviews 1..j-1 of page p,
\* and the raw payload of page p has been saved.
C10_FlatteningAbsorbed ==
    (pc = "done" /\ served # <<>> /\ Unflattenable(LastServed) /\ EarlierWellFormed) =>
        /\ returned = "list"
        /\ all_reviews = ExpectedBatch(served, Len(served) - 1)
                           \o ExpectedPage(Len(served), FirstBad(LastServed) - 1)
        /\ Len(requested) = Len(served)
        /\ \E f \in 1..Len(files) :
              /\ files[f].page_no = Len(served)
              /\ files[f].text = LastServed.text

C10_Witness ==
    /\ pc = "done"
    /\ Len(served) = 2
    /\ no_of_pages = 3
    /\ WellFormed(served[1])
    /\ Unflattenable(LastServed)
    /\ FirstBad(LastServed) = 2
    /\ Len(all_reviews) = Len(served[1].text.variants) + 1
    /\ Len(served[1].text.variants) >= 1

(***************************************************************************)
(* Play Store: extract_values(obj, key), the recursive search              *)
(*   def extract(obj, arr, key):                                           *)
(*       if isinstance(obj, dict):                                         *)
(*           for k, v in obj.items():                                      *)
(*               if isinstance(v, (dict, list)): extract(v, arr, key)      *)
(*               elif k == key: arr.append(v); return arr                  *)
(*       elif isinstance(obj, list):                                       *)
(*           for item in obj: extract(item, arr, key)                      *)
(*       return arr                                                        *)
(* arr is one list shared by all the calls; it is threaded through here.   *)
(***************************************************************************)
RECURSIVE extract(_, _, _)
RECURSIVE extract_dict(_, _, _, _)
RECURSIVE extract_list(_, _, _, _)

extract_dict(en, i, arr, key) ==
    IF i > Len(en) THEN arr
    ELSE IF en[i].v.tag \in {"dict", "list"}
         THEN extract_dict(en, i + 1, extract(en[i].v, arr, key), key)
         ELSE IF en[i].k = key
              THEN Append(arr, en[i].v)
              ELSE extract_dict(en, i + 1, arr, key)

extract_list(en, i, arr, key) ==
    IF i > Len(en) THEN arr
    ELSE extract_list(en, i + 1, extract(en[i].v, arr, key), key)

extract(obj, arr, key) ==
    IF IsDict(obj) THEN extract_dict(obj.e, 1, arr, key)
    ELSE IF IsList(obj) THEN extract_list(obj.e, 1, arr, key)
    ELSE arr

\* a slip: the last match is returned, not the first
extract_values_last(obj, key) ==
    LET results == extract(obj, <<>>, key) IN
    IF Len(results) = 0 THEN None ELSE results[Len(results)]

extract_values(obj, key) ==
    LET results == extract(obj, <<>>, key) IN
    IF Len(results) = 0 THEN None ELSE results[1]

(***************************************************************************)
(* SpecSearch: extract_values on every tree of at most MaxNodes nodes      *)
(***************************************************************************)
MaxNodes == 4   \* nodes (scalars, dicts, lists) of a searched structure

SearchKeys   == {"a", "b"}
ScalarValues == {Scalar("1"), Scalar("2"), None}

\* the ways to key the children c of a dict: distinct keys, in any order
KeyedEntries(c) ==
    { [i \in 1..Len(c) |-> Entry(ks[i], c[i])] :
        ks \in { q \in [1..Len(c) -> SearchKeys] :
                   \A i, j \in 1..Len(c) : i # j => q[i] # q[j] } }

\* TreeTable(n, N, tab): tab[k].t holds the trees of exactly k nodes and
\* tab[k].f the sequences of trees of k nodes in all, for k < n; the table
\* is filled up to N
RECURSIVE TreeTable(_, _, _)
TreeTable(n, N, tab) ==
    IF n > N THEN tab
    ELSE LET F(k) == IF k = 0 THEN {<<>>} ELSE tab[k].f
             children == F(n - 1)
             lists == { List(c) : c \in children }
             dicts == UNION { { Dict(en) : en \in KeyedEntries(c) } : c \in children }
             trees == (IF n = 1 THEN ScalarValues ELSE {}) \cup lists \cup dicts
             forests ==
                 UNION { { <<t>> \o r : t \in (IF k = n THEN trees ELSE tab[k].t),
                                        r \in F(n - k) } : k \in 1..n }
         IN  TreeTable(n + 1, N, Append(tab, [t |-> trees, f |-> forests]))

TreesUpTo(N) == LET tab == TreeTable(1, N, <<>>) IN UNION { tab[n].t : n \in 1..N }

InitSearch ==
    /\ sv_obj \in TreesUpTo(MaxNodes)
    /\ sv_key \in SearchKeys
    /\ sv_result = None
    /\ sv_pc = "call"

IdleSearch ==
    /\ sv_obj = None
    /\ sv_key = ""
    /\ sv_result = None
    /\ sv_pc = "idle"

CallExtractValues ==
    /\ sv_pc = "call"
    /\ sv_result' = extract_values(sv_obj, sv_key)
    /\ sv_pc' = "done"
    /\ UNCHANGED <<sv_obj, sv_key>>
    /\ UNCHANGED <<appleVars, extractVars, playVars, commentVars>>

NextSearch == CallExtractValues

\* the dict entries of obj in pre-order: an entry, then the entries below
\* its value, then the next entry; the items of a list in order
RECURSIVE PreorderFrom(_, _)
PreorderFrom(obj, i) ==
    IF i > Len(obj.e) THEN <<>>
    ELSE (IF IsDict(obj) THEN <<obj.e[i]>> ELSE <<>>)
         \o PreorderFrom(obj.e[i].v, 1)
         \o PreorderFrom(obj, i + 1)
PreorderEntries(obj) == PreorderFrom(obj, 1)

KeyMatches(obj, key) ==
    LET hit(en) == en.k = key IN SelectSeq(PreorderEntries(obj), hit)
ScalarKeyMatches(obj, key) ==
    LET hit(en) == en.k = key /\ en.v.tag = "scalar" IN
    SelectSeq(PreorderEntries(obj), hit)

\* C8 (as claimed): extract_values(obj, key) returns the value of the first
\* entry whose key equals key in a pre-order depth-first traversal of obj,
\* and None exactly when no entry with that key exists anywhere in obj (a
\* null held by the entry found is that entry's value).
C8_FirstEntryInPreorder ==
    sv_pc = "done" =>
        LET m == KeyMatches(sv_obj, sv_key) IN
        /\ m # <<>> => sv_result = m[1].v
        /\ m = <<>> => sv_result = None

\* C8 (amended): extract_values(obj, key) returns the value of the first
\* entry in pre-order whose key equals key and whose value is a scalar;
\* entries whose value is a mapping or a sequence are descended into and
\* never matched; it returns None when there is no such entry.
C8_FirstScalarEntryInPreorder ==
    sv_pc = "done" =>
        LET m == ScalarKeyMatches(sv_obj, sv_key) IN
        /\ m # <<>> => sv_result = m[1].v
        /\ m = <<>> => sv_result = None

\* a deeper match in an earlier branch wins over a shallower, later one
C8_Witness ==
    /\ sv_pc = "done"
    /\ IsDict(sv_obj)
    /\ Len(sv_obj.e) = 2
    /\ IsDict(sv_obj.e[1].v)
    /\ HasKey(sv_obj.e[1].v, sv_key)
    /\ sv_obj.e[2].k = sv_key
    /\ sv_obj.e[2].v.tag = "scalar"
    /\ sv_result = Get(sv_obj.e[1].v, sv_key)
    /\ sv_result # sv_obj.e[2].v
    /\ sv_result # None

(***************************************************************************)
(* Play Store: extract_timestamp and extract_comments                      *)
(***************************************************************************)
\* for t in last_modified: seconds / nanos when present, None otherwise
extract_timestamp(last_modified) ==
    [seconds |-> IF HasKey(last_modified, "seconds")
                 THEN Get(last_modified, "seconds") ELSE None,
     nanos   |-> IF HasKey(last_modified, "nanos")
                 THEN Get(last_modified, "nanos") ELSE None]

comments_keys ==
    << <<"starRating", "star_rating">>,
       <<"reviewerLanguage", "reviewer_language">>,
       <<"device", "device">>,
       <<"androidOsVersion", "android_os_version">>,
       <<"appVersionCode", "app_version_code">>,
       <<"appVersionName", "app_version_name">>,
       <<"thumbsUpCount", "thumbs_up_count">>,
       <<"thumbsDownCount", "thumbs_down_count">>,
       <<"originalText", "original_text">> >>

metadata_keys ==
    << <<"productName", "device_product_name">>,
       <<"manufacturer", "device_manufacturer">>,
       <<"screenHeightPx", "device_screen_height_px">>,
       <<"screenWidthPx", "device_screen_width_px">>,
       <<"screenHeightPx", "device_screen_height_px">>,
       <<"nativePlatform", "device_native_platform">>,
       <<"screenDensityDpi", "device_screen_density_dpi">>,
       <<"glEsVersion", "device_gles_version">>,
       <<"cpuModel", "device_cpu_model">>,
       <<"cpuMake", "device_cpu_make">>,
       <<"ramMb", "device_ram_mb">> >>

\* the fields extract_comments sets before it looks at the comment
PrePopulated(review_id, author_name) ==
    [f \in { "review_id", "author_name", "android_os_version", "app_version_code",
             "app_version_name", "device", "reviewer_language",
             "dev_comment_last_modified_seconds", "dev_comment_last_modified_nanos",
             "dev_comment_text" } |->
        IF f = "review_id" THEN review_id
        ELSE IF f = "author_name" THEN author_name
        ELSE None]

\* for n in keys: review_data[n[1]] = extract_values(obj, n[0])
RECURSIVE put_values(_, _, _, _)
put_values(keys, j, obj, review_data) ==
    IF j > Len(keys) THEN review_data
    ELSE put_values(keys, j + 1, obj,
                    Put(review_data, keys[j][2], extract_values(obj, keys[j][1])))

\* for val in user_comment: ...
RECURSIVE user_comment_loop(_, _, _)
user_comment_loop(user_comment, i, review_data) ==
    IF i > Len(user_comment.e) THEN review_data
    ELSE LET val == user_comment.e[i].k IN
         user_comment_loop(user_comment, i + 1,
            IF val = "text"
            THEN Put(review_data, "user_comment", Get(user_comment, "text"))
            ELSE IF val = "lastModified"
            THEN LET ts == extract_timestamp(Get(user_comment, "lastModified")) IN
                 Put(Put(review_data, "user_comment_last_modified_seconds", ts.seconds),
                     "user_comment_last_modified_nanos", ts.nanos)
            ELSE IF val = "deviceMetadata"
            THEN put_values(metadata_keys, 1, user_comment, review_data)
            ELSE put_values(comments_keys, 1, user_comment, review_data))

\* for val in dev_comment: ...
RECURSIVE dev_comment_loop(_, _, _)
dev_comment_loop(dev_comment, i, review_data) ==
    IF i > Len(dev_comment.e) THEN review_data
    ELSE LET val == dev_comment.e[i].k IN
         dev_comment_loop(dev_comment, i + 1,
            IF val = "lastModified"
            THEN LET ts == extract_timestamp(Get(dev_comment, "lastModified")) IN
                 Put(Put(review_data, "dev_comment_last_modified_seconds", ts.seconds),
                     "dev_comment_last_modified_nanos", ts.nanos)
            ELSE IF val = "text"
            THEN Put(review_data, "dev_comment_text", Get(dev_comment, "text"))
            ELSE review_data)

\* for entry in comment: the two ifs, one after the other
RECURSIVE comment_loop(_, _, _)
comment_loop(comment, i, review_data) ==
    IF i > Len(comment.e) THEN review_data
    ELSE LET entry == comment.e[i].k
             afterUser == IF entry = "userComment"
                          THEN user_comment_loop(comment.e[i].v, 1, review_data)
                          ELSE review_data
             afterDev  == IF entry = "developerComment"
                          THEN dev_comment_loop(comment.e[i].v, 1, afterUser)
                          ELSE afterUser
         IN  comment_loop(comment, i + 1, afterDev)

extract_comments(comment, review_id, author_name) ==
    comment_loop(comment, 1, PrePopulated(review_id, author_name))

(***************************************************************************)
(* Play Store: process_json(review_j)                                      *)
(* The locals are threaded through the loops: bound says whether review_id *)
(* has been assigned yet (it is assigned only under `if review_key ==      *)
(* 'reviewId'` and never reset); raised is the UnboundLocalError of        *)
(* reading it before that, which leaves process_json.                      *)
(***************************************************************************)
\* a slip: each comment-bearing section of a comment gets a record of its own
RECURSIVE comments_loop_per_section(_, _, _)
comments_loop_per_section(comments, c, st) ==
    IF c > Len(comments) \/ st.raised THEN st
    ELSE IF ~st.bound THEN [st EXCEPT !.raised = TRUE]
    ELSE LET comment == comments[c]
             part(k) == Dict(<<Entry(k, Get(comment, k))>>)
             recs == (IF HasKey(comment, "userComment")
                      THEN <<extract_comments(part("userComment"),
                                              st.review_id, st.author_name)>>
                      ELSE <<>>)
                     \o
                     (IF HasKey(comment, "developerComment")
                      THEN <<extract_comments(part("developerComment"),
                                              st.review_id, st.author_name)>>
                      ELSE <<>>)
         IN  comments_loop_per_section(comments, c + 1,
                [st EXCEPT !.all_review_data = st.all_review_data \o recs])

\* for comment in comments:
\*     review_data = extract_comments(comment, review_id, author_name)
\*     all_review_data.append(review_data)
RECURSIVE comments_loop(_, _, _)
comments_loop(comments, c, st) ==
    IF c > Len(comments) \/ st.raised THEN st
    ELSE IF ~st.bound THEN [st EXCEPT !.raised = TRUE]
    ELSE comments_loop(comments, c + 1,
            [st EXCEPT !.all_review_data =
                Append(st.all_review_data,
                       extract_comments(comments[c], st.review_id, st.author_name))])

\* for review_key in review: the three ifs
RECURSIVE review_keys_loop(_, _, _)
review_keys_loop(review, i, st) ==
    IF i > Len(review.e) \/ st.raised THEN st
    ELSE LET review_key == review.e[i].k
             s1 == IF review_key = "reviewId"
                   THEN [st EXCEPT !.bound = TRUE, !.review_id = review.e[i].v]
                   ELSE st
             s2 == IF review_key = "authorName"
                   THEN [s1 EXCEPT !.author_name = review.e[i].v]
                   ELSE s1
             s3 == IF review_key = "comments"
                   THEN comments_loop(Items(review.e[i].v), 1, s2)
                   ELSE s2
         IN  review_keys_loop(review, i + 1, s3)

\* for review in reviews: author_name = None; review_key = None; ...
RECURSIVE reviews_loop(_, _, _)
reviews_loop(reviews, r, st) ==
    IF r > Len(reviews) \/ st.raised THEN st
    ELSE reviews_loop(reviews, r + 1,
            review_keys_loop(reviews[r], 1, [st EXCEPT !.author_name = None]))

\* for entries in review_j: if entries == 'reviews': ...
RECURSIVE entries_loop(_, _, _)
entries_loop(rj, i, st) ==
    IF i > Len(rj.e) \/ st.raised THEN st
    ELSE entries_loop(rj, i + 1,
            IF rj.e[i].k = "reviews"
            THEN reviews_loop(Items(rj.e[i].v), 1, st)
            ELSE st)

process_json(rj) ==
    LET st == entries_loop(rj, 1,
                  [bound |-> FALSE, review_id |-> None, author_name |-> None,
                   all_review_data |-> <<>>, raised |-> FALSE])
    IN  [raised |-> st.raised, all_review_data |-> st.all_review_data]

(***************************************************************************)
(* SpecComments: extract_comments on two comments of the reviews schema    *)
(***************************************************************************)
LastModified == Dict(<<Entry("seconds", Scalar("1597000000")),
                       Entry("nanos", Scalar("5000"))>>)

\* the optional parts of a userComment, in the order of the schema
UserCommentEntries ==
    << Entry("text", Scalar("great")),
       Entry("lastModified", LastModified),
       Entry("starRating", Scalar("5")),
       Entry("device", Scalar("walleye")),
       Entry("deviceMetadata",
             Dict(<<Entry("productName", Scalar("Pixel 2")),
                    Entry("ramMb", Scalar("4096"))>>)) >>
UserCommentParts == { UserCommentEntries[i].k : i \in 1..Len(UserCommentEntries) }

UserComments ==
    { LET kept(en) == en.k \in S IN Dict(SelectSeq(UserCommentEntries, kept)) :
        S \in SUBSET UserCommentParts }

DeveloperComments ==
    { Dict(<<>>),
      Dict(<<Entry("text", Scalar("thanks"))>>),
      Dict(<<Entry("text", Scalar("thanks")),
             Entry("lastModified", Dict(<<Entry("seconds", Scalar("1598000000"))>>))>>) }

Comments ==
    {Dict(<<>>)}
    \cup { Dict(<<Entry("userComment", u)>>) : u \in UserComments }
    \cup { Dict(<<Entry("developerComment", d)>>) : d \in DeveloperComments }
    \cup { Dict(<<Entry("userComment", u), Entry("developerComment", d)>>) :
             u \in UserComments, d \in DeveloperComments }

InitComments ==
    /\ comment_a \in Comments
    /\ comment_b \in Comments
    /\ record_a = EmptyRec
    /\ record_b = EmptyRec
    /\ cm_pc = "call"

IdleComments ==
    /\ comment_a = Dict(<<>>)
    /\ comment_b = Dict(<<>>)
    /\ record_a = EmptyRec
    /\ record_b = EmptyRec
    /\ cm_pc = "idle"

CallExtractComments ==
    /\ cm_pc = "call"
    /\ record_a' = extract_comments(comment_a, Scalar("r1"), Scalar("a1"))
    /\ record_b' = extract_comments(comment_b, Scalar("r1"), Scalar("a1"))
    /\ cm_pc' = "done"
    /\ UNCHANGED <<comment_a, comment_b>>
    /\ UNCHANGED <<appleVars, extractVars, playVars, searchVars>>

NextComments == CallExtractComments

\* C6: every FlatRecord extract_comments produces has the same set of field
\* names, whichever optional parts the source comment includes.
C6_UniformColumns ==
    cm_pc = "done" => DOMAIN record_a = DOMAIN record_b

(***************************************************************************)
(* SpecPlay: process_json on every bounded review collection               *)
(* reviews_in describes the collection {reviews: [...]} as delivered: for  *)
(* each review the order of its keys and the kinds of its comments;        *)
(* review_j builds the nested value process_json is given.                 *)
(***************************************************************************)
MaxPlayReviews  == 2   \* reviews in the collection
MaxPlayComments == 2   \* comment elements in the collection, all reviews together

ReviewKeys == {"reviewId", "authorName", "comments"}
\* the orders in which a review may list its three keys
KeyOrders == { o \in [1..3 -> ReviewKeys] : \A i, j \in 1..3 : i # j => o[i] # o[j] }

CommentKinds == {"user", "dev", "user+dev"}

UserComment == Entry("userComment", Dict(<<Entry("text", Scalar("great"))>>))
DevComment  == Entry("developerComment", Dict(<<Entry("text", Scalar("thanks"))>>))

MkComment(kind) ==
    CASE kind = "user" -> Dict(<<UserComment>>)
      [] kind = "dev"  -> Dict(<<DevComment>>)
      [] OTHER         -> Dict(<<UserComment, DevComment>>)

ReviewIdOf(r)   == Scalar("review_" \o ToString(r))
AuthorNameOf(r) == Scalar("author_" \o ToString(r))

\* the r-th review of a collection
MkPlayReview(r, desc) ==
    Dict([i \in 1..3 |->
            Entry(desc.order[i],
                  IF desc.order[i] = "reviewId" THEN ReviewIdOf(r)
                  ELSE IF desc.order[i] = "authorName" THEN AuthorNameOf(r)
                  ELSE List([c \in 1..Len(desc.comments) |->
                                MkComment(desc.comments[c])]))])

review_j(descs) ==
    Dict(<<Entry("tokenPagination", Dict(<<Entry("nextPageToken", Scalar("t"))>>)),
           Entry("reviews", List([r \in 1..Len(descs) |-> MkPlayReview(r, descs[r])]))>>)

\* comments held by the reviews before review r, counts[r] being the
\* number of comments of review r
RECURSIVE CommentsBefore(_, _)
CommentsBefore(counts, r) ==
    IF r <= 1 THEN 0 ELSE counts[r - 1] + CommentsBefore(counts, r - 1)

\* the collection of Len(orders) reviews, review r listing its keys in
\* orders[r] and holding counts[r] comments, of the kinds given in `kinds`
\* for all reviews in sequence
MkReviewsIn(orders, counts, kinds) ==
    [r \in 1..Len(orders) |->
        [order    |-> orders[r],
         comments |-> [c \in 1..counts[r] |->
                          kinds[CommentsBefore(counts, r) + c]]]]

NoPlayResult == [raised |-> FALSE, all_review_data |-> <<>>]

\* every collection of at most MaxPlayReviews reviews holding at most
\* MaxPlayComments comments in all
InitPlay ==
    /\ \E k \in 0..MaxPlayReviews :
         \E orders \in [1..k -> KeyOrders], counts \in [1..k -> 0..MaxPlayComments] :
            /\ CommentsBefore(counts, k + 1) <= MaxPlayComments
            /\ \E kinds \in [1..CommentsBefore(counts, k + 1) -> CommentKinds] :
                  reviews_in = MkReviewsIn(orders, counts, kinds)
    /\ pj_result = NoPlayResult
    /\ pj_pc = "call"

IdlePlay ==
    /\ reviews_in = <<>>
    /\ pj_result = NoPlayResult
    /\ pj_pc = "idle"

CallProcessJson ==
    /\ pj_pc = "call"
    /\ pj_result' = process_json(review_j(reviews_in))
    /\ pj_pc' = "done"
    /\ UNCHANGED reviews_in
    /\ UNCHANGED <<appleVars, extractVars, commentVars, searchVars>>

NextPlay == CallProcessJson

\* ---- what the claims say of the input, read off reviews_in ----
\* every comment element with the number of the review it belongs to, in
\* review order and then comment order
RECURSIVE ElementsFrom(_)
ElementsFrom(r) ==
    IF r > Len(reviews_in) THEN <<>>
    ELSE [c \in 1..Len(reviews_in[r].comments) |->
             [review |-> r, kind |-> reviews_in[r].comments[c]]]
         \o ElementsFrom(r + 1)
Elements == ElementsFrom(1)

SectionCount(kind) == IF kind = "user+dev" THEN 2 ELSE 1

RECURSIVE SumSections(_, _)
SumSections(els, i) ==
    IF i > Len(els) THEN 0
    ELSE SectionCount(els[i].kind) + SumSections(els, i + 1)

\* which comment-specific parts a record carries
RecordKind(rec) ==
    IF "user_comment" \in DOMAIN rec
    THEN (IF rec["dev_comment_text"] # None THEN "user+dev" ELSE "user")
    ELSE (IF rec["dev_comment_text"] # None THEN "dev" ELSE "none")

\* C5: every record process_json produces for a comment has the reviewId
\* and the authorName of the review that contains the comment, never those
\* of another review and never an unset value.
C5_ParentIdentity ==
    (pj_pc = "done" /\ ~pj_result.raised) =>
        /\ Len(pj_result.all_review_data) = Len(Elements)
        /\ \A i \in 1..Len(Elements) :
              /\ pj_result.all_review_data[i]["review_id"]
                     = ReviewIdOf(Elements[i].review)
              /\ pj_result.all_review_data[i]["author_name"]
                     = AuthorNameOf(Elements[i].review)

\* C7 (as claimed): process_json yields exactly one record per
\* comment-bearing section (userComment or developerComment) present.
C7_OneRecordPerSection ==
    (pj_pc = "done" /\ ~pj_result.raised) =>
        Len(pj_result.all_review_data) = SumSections(Elements, 1)

\* review_id is read before anything was assigned to it: the first review
\* lists a non-empty comments before its reviewId (every later review finds
\* the review_id left behind by the one before it)
ReadsUnboundReviewId ==
    /\ Len(reviews_in) > 0
    /\ Len(reviews_in[1].comments) > 0
    /\ \E i, j \in 1..3 :
          /\ i < j
          /\ reviews_in[1].order[i] = "comments"
          /\ reviews_in[1].order[j] = "reviewId"

\* C7 (amended): process_json yields exactly one record per element of a
\* review's comments list, in review order and then comment order; an
\* element with both a userComment and a developerComment yields one record
\* holding both; records of one review share review_id and author_name.
\* It yields nothing (it raises) exactly when the first review lists a
\* non-empty comments before its reviewId.
C7_OneRecordPerElement ==
    pj_pc = "done" =>
        /\ pj_result.raised <=> ReadsUnboundReviewId
        /\ pj_result.raised => pj_result.all_review_data = <<>>
        /\ ~pj_result.raised =>
              /\ Len(pj_result.all_review_data) = Len(Elements)
              /\ \A i \in 1..Len(Elements) :
                    RecordKind(pj_result.all_review_data[i]) = Elements[i].kind
              /\ \A i, j \in 1..Len(Elements) :
                    Elements[i].review = Elements[j].review =>
                       /\ pj_result.all_review_data[i]["review_id"]
                             = pj_result.all_review_data[j]["review_id"]
                       /\ pj_result.all_review_data[i]["author_name"]
                             = pj_result.all_review_data[j]["author_name"]

\* one review whose comments are a user comment and a developer comment:
\* two records, sharing review_id and author_name, differing otherwise
C7_Witness ==
    /\ pj_pc = "done"
    /\ ~pj_result.raised
    /\ Len(reviews_in) = 1
    /\ reviews_in[1].comments = <<"user", "dev">>
    /\ Len(pj_result.all_review_data) = 2
    /\ pj_result.all_review_data[1]["review_id"] = ReviewIdOf(1)
    /\ pj_result.all_review_data[2]["review_id"] = ReviewIdOf(1)
    /\ pj_result.all_review_data[1]["author_name"]
          = pj_result.all_review_data[2]["author_name"]
    /\ pj_result.all_review_data[1] # pj_result.all_review_data[2]

(***************************************************************************)
(* Specifications                                                          *)
(***************************************************************************)
\* each specification runs one of the five parts from its initial states
\* and leaves the others idle
StartApple    == InitApple /\ IdleExtract /\ IdlePlay /\ IdleComments /\ IdleSearch
StartExtract  == IdleApple /\ InitExtract /\ IdlePlay /\ IdleComments /\ IdleSearch
StartPlay     == IdleApple /\ IdleExtract /\ InitPlay /\ IdleComments /\ IdleSearch
StartComments == IdleApple /\ IdleExtract /\ IdlePlay /\ InitComments /\ IdleSearch
StartSearch   == IdleApple /\ IdleExtract /\ IdlePlay /\ IdleComments /\ InitSearch

SpecApple    == StartApple /\ [][NextApple]_vars
SpecExtract  == StartExtract /\ [][NextExtract]_vars
SpecPlay     == StartPlay /\ [][NextPlay]_vars
SpecComments == StartComments /\ [][NextComments]_vars
SpecSearch   == StartSearch /\ [][NextSearch]_vars

=============================================================================
